---- MODULE Spec2Model ----
(***************************************************************************)
(* Model of src/main.py: the acoustic functions                            *)
(* calculer_frequence_fondamentale, calculer_harmoniques and               *)
(* calculer_frequence_avec_trous, and the Streamlit script that calls      *)
(* them (main calculation, parameter sweeps, current-value marker).        *)
(*                                                                         *)
(* Numbers.  Python floats are modelled as exact rationals in lowest       *)
(* terms, extended with the IEEE values inf, -inf and nan and with the     *)
(* outcome "ZeroDivisionError" of a raised exception:                      *)
(*     [k |-> "num", n |-> numerator, d |-> denominator > 0]               *)
(*     [k |-> "inf", n |-> 1 or -1, d |-> 0]                               *)
(*     [k |-> "nan", n |-> 0, d |-> 0]                                     *)
(*     [k |-> "ZeroDivisionError", n |-> 0, d |-> 0]                       *)
(* Rounding of binary floating point and the sign of zero are not          *)
(* modelled.  A division by zero raises ZeroDivisionError on Python floats *)
(* and yields inf/nan (with a warning only) on numpy.float64 operands; the *)
(* flag numpy of a call says which of the two kinds its operands are.      *)
(***************************************************************************)
EXTENDS Integers, Sequences, FiniteSets, TLC

VARIABLES
    pc,                \* position of the script run
    widgets,           \* values held by the input widgets (lines 21-50)
    heap,              \* the dict objects created at lines 52-55, by identity
    trous,             \* list of dict identities (line 39)
    trous_modifies,    \* list of dict identities (line 344)
    vitesse_son,       \* line 58
    freq_fondamentale, \* lines 107-110
    freq_sans_trous,   \* line 124
    harmoniques,       \* last call of calculer_harmoniques: arguments and result
    param_variable,    \* line 296
    k,                 \* index of the next sample point of the running sweep
    y_values_fond,     \* lines 302-346
    current,           \* current_x, current_idx, current_y_fond (lines 366-378)
    call,              \* last call of a frequency function: arguments and result
    prev,              \* the call before a re-evaluation with changed holes
    op                 \* what was changed between prev and call

vars == <<pc, widgets, heap, trous, trous_modifies, vitesse_son,
          freq_fondamentale, freq_sans_trous, harmoniques, param_variable, k,
          y_values_fond, current, call, prev, op>>

scriptVars == <<pc, widgets, heap, trous, trous_modifies, vitesse_son,
                freq_fondamentale, freq_sans_trous, param_variable, k,
                y_values_fond, current>>

-----------------------------------------------------------------------------
(* Float arithmetic *)

Abs(x) == IF x < 0 THEN -x ELSE x

RECURSIVE GCD(_, _)
GCD(a, b) == IF b = 0 THEN a ELSE GCD(b, a % b)

\* the float n/d, d # 0
R(n, d) ==
    LET g == GCD(Abs(n), Abs(d))
        s == IF d < 0 THEN -1 ELSE 1
    IN  [k |-> "num", n |-> (s * n) \div g, d |-> Abs(d) \div g]

Inf(s) == [k |-> "inf", n |-> s, d |-> 0]
NaN == [k |-> "nan", n |-> 0, d |-> 0]
ZeroDivisionError == [k |-> "ZeroDivisionError", n |-> 0, d |-> 0]
None == [k |-> "None", n |-> 0, d |-> 0]

IsNum(x) == x.k = "num"
IsRaise(x) == x.k = "ZeroDivisionError"

Sgn(x) == IF x.n > 0 THEN 1 ELSE IF x.n < 0 THEN -1 ELSE 0

\* a * b
Mul(a, b) ==
    IF IsRaise(a) THEN a
    ELSE IF IsRaise(b) THEN b
    ELSE IF a.k = "nan" \/ b.k = "nan" THEN NaN
    ELSE IF a.k = "inf" \/ b.k = "inf"
         THEN IF Sgn(a) * Sgn(b) = 0 THEN NaN ELSE Inf(Sgn(a) * Sgn(b))
    ELSE LET g1 == GCD(Abs(a.n), b.d)
             g2 == GCD(Abs(b.n), a.d)
         IN  [k |-> "num", n |-> (a.n \div g1) * (b.n \div g2),
                           d |-> (a.d \div g2) * (b.d \div g1)]

\* a + b
Add(a, b) ==
    IF IsRaise(a) THEN a
    ELSE IF IsRaise(b) THEN b
    ELSE IF a.k = "nan" \/ b.k = "nan" THEN NaN
    ELSE IF a.k = "inf" /\ b.k = "inf" THEN (IF a.n = b.n THEN a ELSE NaN)
    ELSE IF a.k = "inf" THEN a
    ELSE IF b.k = "inf" THEN b
    ELSE LET g == GCD(a.d, b.d)
         IN  R(a.n * (b.d \div g) + b.n * (a.d \div g), (a.d \div g) * b.d)

\* a - b
Sub(a, b) == Add(a, IF IsRaise(b) THEN b ELSE [b EXCEPT !.n = -b.n])

\* a / b; np: the operands are numpy.float64
Div(a, b, np) ==
    IF IsRaise(a) THEN a
    ELSE IF IsRaise(b) THEN b
    ELSE IF a.k = "nan" \/ b.k = "nan" THEN NaN
    ELSE IF b.k = "inf" THEN (IF a.k = "inf" THEN NaN ELSE R(0, 1))
    ELSE IF b.n = 0
         THEN IF ~np THEN ZeroDivisionError
              ELSE IF Sgn(a) = 0 THEN NaN ELSE Inf(Sgn(a))
    ELSE IF a.k = "inf" THEN Inf(a.n * Sgn(b))
    ELSE Mul(a, [k |-> "num", n |-> Sgn(b) * b.d, d |-> Abs(b.n)])

\* a.n/a.d - b.n/b.d has the sign of this integer (common factors of the
\* denominators and of the numerators are removed before multiplying)
Cmp(a, b) ==
    LET g == GCD(a.d, b.d)
        h == IF a.n = 0 \/ b.n = 0 THEN 1 ELSE GCD(Abs(a.n), Abs(b.n))
    IN  (a.n \div h) * (b.d \div g) - (b.n \div h) * (a.d \div g)

\* a < b, a <= b on finite floats
Lt(a, b) == Cmp(a, b) < 0
Le(a, b) == Cmp(a, b) <= 0

-----------------------------------------------------------------------------
(* The acoustic functions, lines 61-104 *)

Ouvert == "Ouvert aux deux extremites"
Ferme == "Ferme a une extremite"

calculer_frequence_fondamentale(v_son, L, type_tube, np) ==
    IF type_tube = Ouvert
    THEN Div(v_son, Mul(R(2, 1), L), np)
    ELSE Div(v_son, Mul(R(4, 1), L), np)

\* slip: the multiples of an open pipe for both kinds of pipe
Multiple_entiers(n, type_tube) == n + 1

Multiple(n, type_tube) == IF type_tube = Ouvert THEN n + 1 ELSE 2 * n + 1

\* entry i (1-based) is the list's entry n = i - 1
calculer_harmoniques(freq_fond, nombre_harmoniques, type_tube) ==
    [i \in 1..nombre_harmoniques |->
        Mul(freq_fond, R(Multiple(i - 1, type_tube), 1))]

\* sorted(trous, key=position) is stable: a hole goes behind every hole
\* already placed whose position is not larger
RECURSIVE Insert(_, _)
Insert(t, s) ==
    IF s = <<>> THEN <<t>>
    ELSE IF Lt(t.position, s[1].position) THEN <<t>> \o s
    ELSE <<s[1]>> \o Insert(t, Tail(s))

RECURSIVE SortedFrom(_, _)
SortedFrom(done, rest) ==
    IF rest = <<>> THEN done
    ELSE SortedFrom(Insert(rest[1], done), Tail(rest))

\* slip: the list is used in the order given
Sorted_sans_tri(trous_list) == trous_list

Sorted(trous_list) == SortedFrom(<<>>, trous_list)

\* np.pi * (diametre/2)**2, as a multiple of pi
Section(diametre) == Mul(Div(diametre, R(2, 1), FALSE), Div(diametre, R(2, 1), FALSE))

\* slip: position - 1 instead of 1 - position
TermeMulti_signe(trou, L, diametre_tube, np) ==
    Mul(Mul(Mul(Div(Section(trou.diametre), Section(diametre_tube), np),
                Sub(trou.position, R(1, 1))),
            L),
        R(1, 10))

\* one pass of the loop body at line 94
TermeMulti(trou, L, diametre_tube, np) ==
    Mul(Mul(Mul(Div(Section(trou.diametre), Section(diametre_tube), np),
                Sub(R(1, 1), trou.position)),
            L),
        R(1, 10))

RECURSIVE CorrectionMulti(_, _, _, _, _)
CorrectionMulti(acc, trous_tries, L, diametre_tube, np) ==
    IF trous_tries = <<>> THEN acc
    ELSE CorrectionMulti(Add(acc, TermeMulti(trous_tries[1], L, diametre_tube, np)),
                         Tail(trous_tries), L, diametre_tube, np)

\* slip: the distance is measured from the far end
PositionPremierTrou_depuis_sortie(L, trous_list) ==
    Mul(Sub(R(1, 1), Sorted(trous_list)[1].position), L)

PositionPremierTrou(L, trous_list) == Mul(Sorted(trous_list)[1].position, L)

\* slip: correction -= correction_multi
Correction_soustrait(L, trous_list, diametre_tube, np) ==
    LET trous_tries == Sorted(trous_list)
        correction == Mul(R(3, 10), trous_tries[1].diametre)
    IN  IF Len(trous_list) > 1
        THEN Sub(correction, CorrectionMulti(R(0, 1), trous_tries, L, diametre_tube, np))
        ELSE correction

Correction(L, trous_list, diametre_tube, np) ==
    LET trous_tries == Sorted(trous_list)
        correction == Mul(R(3, 10), trous_tries[1].diametre)
    IN  IF Len(trous_list) > 1
        THEN Add(correction, CorrectionMulti(R(0, 1), trous_tries, L, diametre_tube, np))
        ELSE correction

LongueurEffective(L, trous_list, diametre_tube, np) ==
    Add(PositionPremierTrou(L, trous_list), Correction(L, trous_list, diametre_tube, np))

\* slip: the formula of the open pipe whenever there is no hole
calculer_frequence_avec_trous_ouvert(v_son, L, type_tube, trous_list, diametre_tube, np) ==
    IF trous_list = <<>>
    THEN Div(v_son, Mul(R(2, 1), L), np)
    ELSE LET longueur_effective == LongueurEffective(L, trous_list, diametre_tube, np)
         IN  IF type_tube = Ouvert
             THEN Div(v_son, Mul(R(2, 1), longueur_effective), np)
             ELSE Div(v_son, Mul(R(4, 1), longueur_effective), np)

calculer_frequence_avec_trous(v_son, L, type_tube, trous_list, diametre_tube, np) ==
    IF trous_list = <<>>
    THEN calculer_frequence_fondamentale(v_son, L, type_tube, np)
    ELSE LET longueur_effective == LongueurEffective(L, trous_list, diametre_tube, np)
         IN  IF type_tube = Ouvert
             THEN Div(v_son, Mul(R(2, 1), longueur_effective), np)
             ELSE Div(v_son, Mul(R(4, 1), longueur_effective), np)

-----------------------------------------------------------------------------
(* Records of calls *)

NoHarmoniques == [fn |-> "none", freq_fond |-> None, nombre_harmoniques |-> 0,
                  type_tube |-> Ouvert, ret |-> <<>>]

\* the call calculer_frequence_fondamentale(v_son, L, type_tube); trous_list
\* and diametre_tube are kept for the comparison with the other function
AppelFondamentale(v_son, L, type_tube, trous_list, diametre_tube, np) ==
    [fn |-> "calculer_frequence_fondamentale", v_son |-> v_son, L |-> L,
     type_tube |-> type_tube, trous |-> trous_list,
     diametre_tube |-> diametre_tube, numpy |-> np,
     correction |-> None, longueur_effective |-> None,
     ret |-> calculer_frequence_fondamentale(v_son, L, type_tube, np)]

\* the call calculer_frequence_avec_trous(v_son, L, type_tube, trous, diametre_tube)
\* with the values of its locals correction and longueur_effective
AppelAvecTrous(v_son, L, type_tube, trous_list, diametre_tube, np) ==
    [fn |-> "calculer_frequence_avec_trous", v_son |-> v_son, L |-> L,
     type_tube |-> type_tube, trous |-> trous_list,
     diametre_tube |-> diametre_tube, numpy |-> np,
     correction |-> IF trous_list = <<>> THEN None
                    ELSE Correction(L, trous_list, diametre_tube, np),
     longueur_effective |-> IF trous_list = <<>> THEN None
                            ELSE LongueurEffective(L, trous_list, diametre_tube, np),
     ret |-> calculer_frequence_avec_trous(v_son, L, type_tube, trous_list,
                                           diametre_tube, np)]

AppelHarmoniques(freq_fond, nombre_harmoniques, type_tube) ==
    [fn |-> "calculer_harmoniques", freq_fond |-> freq_fond,
     nombre_harmoniques |-> nombre_harmoniques, type_tube |-> type_tube,
     ret |-> calculer_harmoniques(freq_fond, nombre_harmoniques, type_tube)]

-----------------------------------------------------------------------------
(* The state of the script before its first run: widget default values *)

MaxTrous == 2        \* largest number of holes explored
MaxHarmoniques == 5  \* largest nombre_harmoniques explored

DefaultWidgets ==
    [longueur_mm |-> 1000, diametre_mm |-> 50, vitesse_kmh |-> 36,
     temperature |-> 20, type_tuyau |-> Ouvert, nb_trous |-> 0,
     pos_trou |-> <<>>, diam_trou_mm |-> <<>>]

NoCall == [fn |-> "none", v_son |-> None, L |-> None, type_tube |-> Ouvert,
           trous |-> <<>>, diametre_tube |-> None, numpy |-> FALSE,
           correction |-> None, longueur_effective |-> None, ret |-> None]

NoCurrent == [current_x |-> None, current_idx |-> -1, current_y_fond |-> None]

ScriptInit ==
    /\ pc = "start"
    /\ widgets = DefaultWidgets
    /\ heap = <<>>
    /\ trous = <<>>
    /\ trous_modifies = <<>>
    /\ vitesse_son = None
    /\ freq_fondamentale = None
    /\ freq_sans_trous = None
    /\ param_variable = "none"
    /\ k = 0
    /\ y_values_fond = <<>>
    /\ current = NoCurrent

-----------------------------------------------------------------------------
(* The functions on their own: inputs drawn from bounded sets, valid and   *)
(* invalid ones, then one call, followed by its harmonic series or by one  *)
(* re-evaluation on a changed hole list                                    *)

FnVSons == {R(331, 1), R(343, 1)}
FnLongueurs == {R(-1, 1), R(0, 1), R(1, 1)}
FnDiametresTube == {R(-1, 20), R(0, 1), R(1, 50), R(1, 20)}
FnPositions == {R(1, 4), R(1, 2)}
FnCibles == {R(1, 2), R(3, 4)}   \* positions a hole is moved to
FnDiametresTrou == {R(1, 100), R(1, 50)}
Types == {Ouvert, Ferme}

FnTrou == [position : FnPositions, diametre : FnDiametresTrou]

FnListes == UNION {[1..n -> FnTrou] : n \in 0..MaxTrous}

InitFn ==
    /\ ScriptInit
    /\ harmoniques = NoHarmoniques
    /\ \E v \in FnVSons, L \in FnLongueurs, t \in Types, tr \in FnListes,
          D \in FnDiametresTube, np \in BOOLEAN :
          call = [NoCall EXCEPT !.v_son = v, !.L = L, !.type_tube = t,
                                !.trous = tr, !.diametre_tube = D, !.numpy = np]
    /\ prev = NoCall
    /\ op = "none"

\* index in the input list of the hole sorted() puts first
PremierTrou(trous_list) ==
    CHOOSE i \in 1..Len(trous_list) :
        /\ \A j \in 1..Len(trous_list) : Le(trous_list[i].position, trous_list[j].position)
        /\ \A j \in 1..(i - 1) : Lt(trous_list[i].position, trous_list[j].position)

FnFondamentale ==
    /\ call.fn = "none" \/ op = "appel"
    /\ harmoniques = NoHarmoniques
    /\ call' = AppelFondamentale(call.v_son, call.L, call.type_tube, call.trous,
                                 call.diametre_tube, call.numpy)
    /\ prev' = call
    /\ op' = "sans_trous"
    /\ UNCHANGED <<scriptVars, harmoniques>>

FnAvecTrous ==
    /\ call.fn = "none"
    /\ call' = AppelAvecTrous(call.v_son, call.L, call.type_tube, call.trous,
                              call.diametre_tube, call.numpy)
    /\ prev' = call
    /\ op' = "appel"
    /\ UNCHANGED <<scriptVars, harmoniques>>

\* the same holes in another order
FnPermuter ==
    /\ op = "appel"
    /\ harmoniques = NoHarmoniques
    /\ \E p \in Permutations(1..Len(call.trous)) :
          /\ p # [i \in 1..Len(call.trous) |-> i]
          /\ call' = AppelAvecTrous(call.v_son, call.L, call.type_tube,
                                    [i \in 1..Len(call.trous) |-> call.trous[p[i]]],
                                    call.diametre_tube, call.numpy)
    /\ prev' = call
    /\ op' = "permuter"
    /\ UNCHANGED <<scriptVars, harmoniques>>

\* the hole nearest the mouth at a larger position
FnDeplacer ==
    /\ op = "appel"
    /\ harmoniques = NoHarmoniques
    /\ call.trous # <<>>
    /\ \E p \in FnCibles :
          LET i == PremierTrou(call.trous)
          IN  /\ Lt(call.trous[i].position, p)
              /\ call' = AppelAvecTrous(call.v_son, call.L, call.type_tube,
                                        [call.trous EXCEPT ![i].position = p],
                                        call.diametre_tube, call.numpy)
    /\ prev' = call
    /\ op' = "deplacer"
    /\ UNCHANGED <<scriptVars, harmoniques>>

\* one more hole, anywhere in the list
FnAjouter ==
    /\ op = "appel"
    /\ harmoniques = NoHarmoniques
    /\ Len(call.trous) < MaxTrous
    /\ \E t \in FnTrou, i \in 0..Len(call.trous) :
          call' = AppelAvecTrous(call.v_son, call.L, call.type_tube,
                                 SubSeq(call.trous, 1, i) \o <<t>>
                                     \o SubSeq(call.trous, i + 1, Len(call.trous)),
                                 call.diametre_tube, call.numpy)
    /\ prev' = call
    /\ op' = "ajouter"
    /\ UNCHANGED <<scriptVars, harmoniques>>

\* the harmonic series of the frequency of a first call, as at lines 107-112
FnHarmoniques ==
    /\ call.fn # "none"
    /\ prev.fn = "none"
    /\ IsNum(call.ret)
    /\ harmoniques = NoHarmoniques
    /\ \E n \in 0..MaxHarmoniques :
          harmoniques' = AppelHarmoniques(call.ret, n, call.type_tube)
    /\ UNCHANGED <<scriptVars, call, prev, op>>

NextFn ==
    \/ FnFondamentale
    \/ FnAvecTrous
    \/ FnPermuter
    \/ FnDeplacer
    \/ FnAjouter
    \/ FnHarmoniques

SpecFn == InitFn /\ [][NextFn]_vars

-----------------------------------------------------------------------------
(* The script, lines 15-58 and 106-378: one run per change of a widget *)

NbPoints == 100   \* sample points of a sweep (third argument of np.linspace)

\* values the widgets are set to, inside the ranges of lines 21-50.  The
\* runs explored have at most one hole: with two holes the exact values of
\* the 100 sample points of a sweep no longer fit in 32-bit integers (the
\* functions are explored with more holes under SpecFn)
LongueursMm == {100, 1000}
DiametresMm == {5, 50}
VitessesKmh == {36}
Temperatures == {20}
NbTrous == {0, 1}
PosTrous == {25, 50}
DiamTrousMm == {1, 10}

\* a hole diameter widget accepts 1.0 .. diametre_mm - 1 (line 50), a
\* position widget 5.0 .. 95.0 (line 47)
Configs ==
    {w \in [longueur_mm : LongueursMm, diametre_mm : DiametresMm,
            vitesse_kmh : VitessesKmh, temperature : Temperatures,
            type_tuyau : Types, nb_trous : NbTrous,
            pos_trou : UNION {[1..n -> PosTrous] : n \in NbTrous},
            diam_trou_mm : UNION {[1..n -> DiamTrousMm] : n \in NbTrous}] :
        /\ Len(w.pos_trou) = w.nb_trous
        /\ Len(w.diam_trou_mm) = w.nb_trous
        /\ \A i \in 1..w.nb_trous : w.diam_trou_mm[i] <= w.diametre_mm - 1}

longueur == Div(R(widgets.longueur_mm, 1), R(1000, 1), FALSE)
diametre == Div(R(widgets.diametre_mm, 1), R(1000, 1), FALSE)

\* largest r in lo..hi with r * r <= x
RECURSIVE Isqrt(_, _, _)
Isqrt(lo, hi, x) ==
    IF lo = hi THEN lo
    ELSE LET mid == (lo + hi + 1) \div 2
         IN  IF mid * mid <= x THEN Isqrt(mid, hi, x) ELSE Isqrt(lo, mid - 1, x)

\* 331.3 * np.sqrt(1 + t / 273.15) for a temperature t in -20..50, rounded
\* down to 0.1 m/s: the square of ten times the value is
\* 3313^2 + (3313^2 / 273.15) * t, with 3313^2 / 273.15 taken as 40183
VitesseSon(t) ==
    R(Isqrt(3000, 3700, (10975969 * t.d + 40183 * t.n) \div t.d), 10)

\* the list of dicts a list of identities stands for
Deref(h, ids) == [i \in 1..Len(ids) |-> h[ids[i]]]

\* np.linspace(a, b, 100)[i]
Linspace(a, b, i) == R(a * (NbPoints - 1) + i * (b - a), NbPoints - 1)

Options ==
    {"Longueur", "Diametre", "Vitesse de l'air", "Temperature"}
        \cup (IF widgets.nb_trous > 0 THEN {"Position du premier trou"} ELSE {})

\* x_display[i] of the sweep of parameter param
XDisplay(param, i) ==
    IF param = "Longueur" THEN Linspace(100, 10000, i)
    ELSE IF param = "Diametre" THEN Linspace(5, 500, i)
    ELSE IF param = "Vitesse de l'air" THEN Linspace(1, 180, i)
    ELSE IF param = "Temperature" THEN Linspace(-20, 50, i)
    ELSE Linspace(5, 95, i)

\* lines 39-58: trous is rebuilt from the widgets, one new dict per hole
ConstruireTrous ==
    /\ pc = "start"
    /\ heap' = [i \in 1..widgets.nb_trous |->
                   [position |-> Div(R(widgets.pos_trou[i], 1), R(100, 1), FALSE),
                    diametre |-> Div(R(widgets.diam_trou_mm[i], 1), R(1000, 1), FALSE)]]
    /\ trous' = [i \in 1..widgets.nb_trous |-> i]
    /\ vitesse_son' = VitesseSon(R(widgets.temperature, 1))
    /\ pc' = "calcul"
    /\ UNCHANGED <<widgets, trous_modifies, freq_fondamentale, freq_sans_trous,
                   harmoniques, param_variable, k, y_values_fond, current,
                   call, prev, op>>

\* lines 106-112; vitesse_son is a numpy.float64
CalculerValeurs ==
    /\ pc = "calcul"
    /\ call' = IF widgets.nb_trous > 0
               THEN AppelAvecTrous(vitesse_son, longueur, widgets.type_tuyau,
                                   Deref(heap, trous), diametre, TRUE)
               ELSE AppelFondamentale(vitesse_son, longueur, widgets.type_tuyau,
                                      <<>>, diametre, TRUE)
    /\ freq_fondamentale' = call'.ret
    /\ harmoniques' = AppelHarmoniques(call'.ret, 5, widgets.type_tuyau)
    /\ pc' = "afficher"
    /\ UNCHANGED <<widgets, heap, trous, trous_modifies, vitesse_son,
                   freq_sans_trous, param_variable, k, y_values_fond, current,
                   prev, op>>

\* lines 117-132
AfficherResultats ==
    /\ pc = "afficher"
    /\ IF widgets.nb_trous > 0
       THEN /\ call' = AppelFondamentale(vitesse_son, longueur, widgets.type_tuyau,
                                         <<>>, diametre, TRUE)
            /\ freq_sans_trous' = call'.ret
       ELSE UNCHANGED <<call, freq_sans_trous>>
    /\ pc' = "choisir"
    /\ UNCHANGED <<widgets, heap, trous, trous_modifies, vitesse_son,
                   freq_fondamentale, harmoniques, param_variable, k,
                   y_values_fond, current, prev, op>>

\* lines 291-296
ChoisirParametre ==
    /\ pc = "choisir"
    /\ \E p \in Options : param_variable' = p
    /\ k' = 0
    /\ y_values_fond' = <<>>
    /\ pc' = "balayage"
    /\ UNCHANGED <<widgets, heap, trous, trous_modifies, vitesse_son,
                   freq_fondamentale, freq_sans_trous, harmoniques, current,
                   call, prev, op>>

\* what every sample point of a sweep does with the call it made
Echantillon(c) ==
    /\ call' = c
    /\ y_values_fond' = Append(y_values_fond, c.ret)
    /\ k' = k + 1
    /\ UNCHANGED <<pc, widgets, vitesse_son, freq_fondamentale, freq_sans_trous,
                   harmoniques, param_variable, current, prev, op>>

\* lines 298-308, one sample point; the dicts {**t, "position": ...} are new
\* objects that only the call sees
BalayageLongueur ==
    /\ pc = "balayage" /\ param_variable = "Longueur" /\ k < NbPoints
    /\ LET x == Div(XDisplay("Longueur", k), R(1000, 1), TRUE)
       IN  Echantillon(
             IF widgets.nb_trous > 0
             THEN AppelAvecTrous(vitesse_son, x, widgets.type_tuyau,
                    [i \in 1..Len(trous) |->
                        [heap[trous[i]] EXCEPT !.position =
                            Div(Mul(heap[trous[i]].position, longueur), x, TRUE)]],
                    diametre, TRUE)
             ELSE AppelFondamentale(vitesse_son, x, widgets.type_tuyau, <<>>,
                                    diametre, TRUE))
    /\ UNCHANGED <<heap, trous, trous_modifies>>

\* lines 310-318, one sample point
BalayageDiametre ==
    /\ pc = "balayage" /\ param_variable = "Diametre" /\ k < NbPoints
    /\ LET x == Div(XDisplay("Diametre", k), R(1000, 1), TRUE)
       IN  Echantillon(
             IF widgets.nb_trous > 0
             THEN AppelAvecTrous(vitesse_son, longueur, widgets.type_tuyau,
                                 Deref(heap, trous), x, TRUE)
             ELSE AppelFondamentale(vitesse_son, longueur, widgets.type_tuyau,
                                    <<>>, diametre, TRUE))
    /\ UNCHANGED <<heap, trous, trous_modifies>>

\* lines 320-325, one sample point
BalayageVitesse ==
    /\ pc = "balayage" /\ param_variable = "Vitesse de l'air" /\ k < NbPoints
    /\ Echantillon(AppelFondamentale(vitesse_son, longueur, widgets.type_tuyau,
                                     <<>>, diametre, TRUE))
    /\ UNCHANGED <<heap, trous, trous_modifies>>

\* lines 327-335, one sample point
BalayageTemperature ==
    /\ pc = "balayage" /\ param_variable = "Temperature" /\ k < NbPoints
    /\ LET v == VitesseSon(XDisplay("Temperature", k))
       IN  Echantillon(
             IF widgets.nb_trous > 0
             THEN AppelAvecTrous(v, longueur, widgets.type_tuyau,
                                 Deref(heap, trous), diametre, TRUE)
             ELSE AppelFondamentale(v, longueur, widgets.type_tuyau, <<>>,
                                    diametre, TRUE))
    /\ UNCHANGED <<heap, trous, trous_modifies>>

\* lines 337-349, one pass of the loop: trous.copy() is a new list of the
\* same dicts, and the assignment at line 345 writes into the first of them
BalayagePosition ==
    /\ pc = "balayage" /\ param_variable = "Position du premier trou"
    /\ widgets.nb_trous > 0 /\ k < NbPoints
    /\ trous_modifies' = trous
    /\ heap' = [heap EXCEPT ![trous_modifies'[1]].position =
                   Div(XDisplay("Position du premier trou", k), R(100, 1), TRUE)]
    /\ Echantillon(AppelAvecTrous(vitesse_son, longueur, widgets.type_tuyau,
                                  Deref(heap', trous_modifies'), diametre, TRUE))
    /\ UNCHANGED trous

CurrentX ==
    IF param_variable = "Longueur" THEN R(widgets.longueur_mm, 1)
    ELSE IF param_variable = "Diametre" THEN R(widgets.diametre_mm, 1)
    ELSE IF param_variable = "Vitesse de l'air" THEN R(widgets.vitesse_kmh, 1)
    ELSE IF param_variable = "Temperature" THEN R(widgets.temperature, 1)
    ELSE Mul(heap[trous[1]].position, R(100, 1))

\* |x_display[i] - x|
Ecart(param, i, x) ==
    LET e == Sub(XDisplay(param, i), x)
    IN  IF e.n < 0 THEN [e EXCEPT !.n = -e.n] ELSE e

\* np.abs(x_display - x).argmin() over the indices lo..hi: the first index
\* of the smallest value (the left half wins a tie)
RECURSIVE ArgMin(_, _, _, _)
ArgMin(param, x, lo, hi) ==
    IF lo = hi THEN lo
    ELSE LET mid == (lo + hi) \div 2
             a == ArgMin(param, x, lo, mid)
             b == ArgMin(param, x, mid + 1, hi)
         IN  IF Lt(Ecart(param, b, x), Ecart(param, a, x)) THEN b ELSE a

\* lines 365-378, once the sweep has run all its sample points
MarquerValeurActuelle ==
    /\ pc = "balayage" /\ k = NbPoints
    /\ LET idx == ArgMin(param_variable, CurrentX, 0, NbPoints - 1)
       IN  current' = [current_x |-> CurrentX, current_idx |-> idx,
                       current_y_fond |-> y_values_fond[idx + 1]]
    /\ pc' = "done"
    /\ UNCHANGED <<widgets, heap, trous, trous_modifies, vitesse_son,
                   freq_fondamentale, freq_sans_trous, harmoniques,
                   param_variable, k, y_values_fond, call, prev, op>>

\* the user changes widgets: the script runs again from the top in a new
\* namespace
Relancer ==
    /\ pc = "done"
    /\ \E w \in Configs : w # widgets /\ widgets' = w
    /\ pc' = "start"
    /\ heap' = <<>>
    /\ trous' = <<>>
    /\ trous_modifies' = <<>>
    /\ vitesse_son' = None
    /\ freq_fondamentale' = None
    /\ freq_sans_trous' = None
    /\ harmoniques' = NoHarmoniques
    /\ param_variable' = "none"
    /\ k' = 0
    /\ y_values_fond' = <<>>
    /\ current' = NoCurrent
    /\ call' = NoCall
    /\ UNCHANGED <<prev, op>>

Init ==
    /\ ScriptInit
    /\ harmoniques = NoHarmoniques
    /\ call = NoCall
    /\ prev = NoCall
    /\ op = "none"

Next ==
    \/ ConstruireTrous
    \/ CalculerValeurs
    \/ AfficherResultats
    \/ ChoisirParametre
    \/ BalayageLongueur
    \/ BalayageDiametre
    \/ BalayageVitesse
    \/ BalayageTemperature
    \/ BalayagePosition
    \/ MarquerValeurActuelle
    \/ Relancer

Spec == Init /\ [][Next]_vars

-----------------------------------------------------------------------------
(* Properties of the functions *)

Zero == R(0, 1)
One == R(1, 1)

\* the precondition range of section 3 of the specification
ValidTrou(t, D) ==
    /\ Lt(Zero, t.position) /\ Lt(t.position, One)
    /\ Lt(Zero, t.diametre) /\ Lt(t.diametre, D)

Valid(c) ==
    /\ Lt(Zero, c.L)
    /\ Lt(Zero, c.diametre_tube)
    /\ \A i \in 1..Len(c.trous) : ValidTrou(c.trous[i], c.diametre_tube)

AvecTrous(c) == c.fn = "calculer_frequence_avec_trous" /\ c.trous # <<>>

\* C1 as claimed: calculer_frequence_fondamentale called with length == 0 or
\* length < 0 fails with an error and returns no frequency value.
C1_FailsOnNonPositiveLength ==
    (call.fn = "calculer_frequence_fondamentale" /\ Le(call.L, Zero))
        => IsRaise(call.ret)

\* C2 as claimed: calculer_frequence_avec_trous called with a non-empty hole
\* list fails with an error whenever length <= 0, or pipeDiameter <= 0, or a
\* hole has diameter >= pipeDiameter.
C2_FailsOnInvalidGeometry ==
    (/\ AvecTrous(call)
     /\ \/ Le(call.L, Zero)
        \/ Le(call.diametre_tube, Zero)
        \/ \E i \in 1..Len(call.trous) :
              Le(call.diametre_tube, call.trous[i].diametre))
        => IsRaise(call.ret)

\* C3: for every valid input with at least one hole, the effective length is
\* at least position * length of the hole with the smallest position, and the
\* total correction added to that distance is not negative.
C3_EffectiveLengthAtLeastNearestHole ==
    (AvecTrous(call) /\ Valid(call)) =>
        /\ IsNum(call.longueur_effective)
        /\ IsNum(call.correction)
        /\ Le(Zero, call.correction)
        /\ \A i \in 1..Len(call.trous) :
              (\A j \in 1..Len(call.trous) :
                  Le(call.trous[i].position, call.trous[j].position))
              => Le(Mul(call.trous[i].position, call.L), call.longueur_effective)

C3_Witness ==
    /\ AvecTrous(call) /\ Valid(call)
    /\ Len(call.trous) = 2
    /\ call.trous[1].position # call.trous[2].position
    /\ Lt(Mul(R(3, 10), Sorted(call.trous)[1].diametre), call.correction)

\* C4 as claimed: every permutation of the same hole list yields the same
\* frequency, lists in which two holes share a position but differ in
\* diameter included (stated here for valid geometry only, where it already
\* fails).
C4_PermutationInvariant ==
    (op = "permuter" /\ Valid(prev)) => call.ret = prev.ret

NoTieWithOtherDiameter(trous_list) ==
    \A i, j \in 1..Len(trous_list) :
        trous_list[i].position = trous_list[j].position
            => trous_list[i].diametre = trous_list[j].diametre

\* C4 amended: every permutation of a hole list in which no two holes of
\* different diameters share a position yields the same frequency.
C4_PermutationInvariantWithoutTies ==
    (op = "permuter" /\ NoTieWithOtherDiameter(prev.trous))
        => call.ret = prev.ret

C4_Witness ==
    /\ op = "permuter"
    /\ NoTieWithOtherDiameter(prev.trous)
    /\ Valid(call)
    /\ call.trous # prev.trous
    /\ IsNum(call.ret)
    /\ call.ret = prev.ret

\* C5: with speed of sound > 0 and valid geometry, moving the hole nearest the
\* mouth to a larger position, it remaining the nearest hole, strictly
\* increases the effective length and strictly decreases the frequency, for
\* both end conditions.
C5_MonotonicInNearestHolePosition ==
    (/\ op = "deplacer"
     /\ Lt(Zero, call.v_son)
     /\ Valid(prev) /\ Valid(call)
     /\ PremierTrou(call.trous) = PremierTrou(prev.trous))
        => /\ IsNum(prev.ret) /\ IsNum(call.ret)
           /\ Lt(prev.longueur_effective, call.longueur_effective)
           /\ Lt(call.ret, prev.ret)

C5_Witness ==
    /\ op = "deplacer"
    /\ Lt(Zero, call.v_son)
    /\ Valid(prev) /\ Valid(call)
    /\ PremierTrou(call.trous) = PremierTrou(prev.trous)
    /\ Len(call.trous) = 2
    /\ call.type_tube = Ferme
    /\ Lt(call.ret, prev.ret)

\* the hole lists differ by exactly the hole at index i of the longer one
AjouteEn(i, avant, apres) ==
    /\ Len(apres) = Len(avant) + 1
    /\ i \in 1..Len(apres)
    /\ avant = SubSeq(apres, 1, i - 1) \o SubSeq(apres, i + 1, Len(apres))

\* C6: for a valid pipe and a valid first hole, adding a second valid hole at
\* a strictly larger position never decreases the total correction.
C6_SecondHoleNeverDecreasesCorrection ==
    (/\ op = "ajouter"
     /\ Len(prev.trous) = 1
     /\ Valid(call)
     /\ \E i \in 1..2 :
           /\ AjouteEn(i, prev.trous, call.trous)
           /\ Lt(prev.trous[1].position, call.trous[i].position))
        => /\ IsNum(prev.correction) /\ IsNum(call.correction)
           /\ Le(prev.correction, call.correction)

C6_Witness ==
    /\ op = "ajouter"
    /\ Len(prev.trous) = 1
    /\ Valid(call)
    /\ \E i \in 1..2 :
          /\ AjouteEn(i, prev.trous, call.trous)
          /\ Lt(prev.trous[1].position, call.trous[i].position)
    /\ Lt(prev.correction, call.correction)

\* C7: calculer_harmoniques called with fundamental > 0 and count >= 1
\* returns exactly count entries, strictly increasing, entry n (0-based)
\* being fundamental*(n+1) for an open pipe and fundamental*(2n+1) for a
\* pipe closed at one end.
C7_HarmonicSeries ==
    (/\ harmoniques.fn = "calculer_harmoniques"
     /\ Lt(Zero, harmoniques.freq_fond)
     /\ harmoniques.nombre_harmoniques >= 1)
        => /\ Len(harmoniques.ret) = harmoniques.nombre_harmoniques
           /\ \A i \in 1..(Len(harmoniques.ret) - 1) :
                 Lt(harmoniques.ret[i], harmoniques.ret[i + 1])
           /\ \A i \in 1..Len(harmoniques.ret) :
                 harmoniques.ret[i] =
                    IF harmoniques.type_tube = Ouvert
                    THEN Mul(harmoniques.freq_fond, R(i, 1))
                    ELSE Mul(harmoniques.freq_fond, R(2 * i - 1, 1))

C7_Witness ==
    /\ harmoniques.fn = "calculer_harmoniques"
    /\ Lt(Zero, harmoniques.freq_fond)
    /\ harmoniques.nombre_harmoniques = 5
    /\ harmoniques.type_tube = Ferme
    /\ harmoniques.ret[5] = Mul(harmoniques.freq_fond, R(9, 1))

\* C8: calculer_frequence_avec_trous called with an empty hole list returns
\* exactly what calculer_frequence_fondamentale returns for the same speed of
\* sound, length and end condition, whatever the pipe diameter.
C8_EmptyHoleListDelegates ==
    (/\ op = "sans_trous"
     /\ prev.fn = "calculer_frequence_avec_trous"
     /\ prev.trous = <<>>)
        => call.ret = prev.ret

C8_Witness ==
    /\ op = "sans_trous"
    /\ prev.fn = "calculer_frequence_avec_trous"
    /\ prev.trous = <<>>
    /\ call.fn = "calculer_frequence_fondamentale"
    /\ IsNum(call.ret) /\ Lt(Zero, call.ret)
    /\ call.diametre_tube = Zero
    /\ call.ret = prev.ret

-----------------------------------------------------------------------------
(* Properties of the script *)

\* the hole list as the user entered it in the widgets
TrousSaisis ==
    [i \in 1..widgets.nb_trous |->
        [position |-> R(widgets.pos_trou[i], 100),
         diametre |-> R(widgets.diam_trou_mm[i], 1000)]]

\* C9 as claimed: after the sweep of the first hole's position has run all
\* its sample points, every hole of trous still has the position and
\* diameter entered by the user, and the marker computed afterwards from
\* trous[0]["position"] is the user's configured position.
C9_SweepLeavesHolesAsEntered ==
    (/\ param_variable = "Position du premier trou"
     /\ pc \in {"balayage", "done"}
     /\ k = NbPoints)
        => /\ Deref(heap, trous) = TrousSaisis
           /\ pc = "done" => current.current_x = R(widgets.pos_trou[1], 1)

\* C10 as claimed: every call of calculer_frequence_avec_trous the script
\* makes, in the main calculation and at each sample point of every sweep,
\* passes hole positions in (0,1) exclusive and hole diameters strictly less
\* than the pipe diameter passed in that call.
C10_CallsInsidePreconditionRange ==
    call.fn = "calculer_frequence_avec_trous" =>
        \A i \in 1..Len(call.trous) :
            /\ Lt(Zero, call.trous[i].position)
            /\ Lt(call.trous[i].position, One)
            /\ Lt(call.trous[i].diametre, call.diametre_tube)

====
